---- MODULE Spec2Model ----
(***************************************************************************)
(* Model of src/Invoice_Reimbursement.py: one POST /analyze-invoices       *)
(* request, from the file-type validation to the response.                 *)
(*                                                                         *)
(* Strings the code inspects (file names, extracted text) are sequences of *)
(* one-character strings.  The model's reply is a sequence of lexical      *)
(* tokens: "[", "]", ",", JSON value literals, and "prose" for text that   *)
(* is not JSON.  A decoded JSON value (a Python object) is a record        *)
(*   [k, items, d, n, s]                                                   *)
(* k the Python type, items a list's elements, d a dict's entries, n a     *)
(* number in tenths (42.9 is 429) and s a string's characters.             *)
(***************************************************************************)
EXTENDS Integers, Sequences, FiniteSets, TLC

VARIABLES
    hr_policy,        \* UploadFile: [filename, content, readable]
    invoices_zip,     \* UploadFile: [filename, content, readable]
    llm,              \* what generate_content does: [fails, text]
    pc,               \* position in analyze_invoices
    policy_text,      \* local of analyze_invoices
    invoices,         \* local of analyze_invoices: the name -> text mapping
    response_text,    \* local of analyze_invoices_with_llm
    analyses_data,    \* local of analyze_invoices_with_llm: [loaded, value]
    analyses,         \* result of analyze_invoices_with_llm
    response,         \* the HTTP response: [status, detail, analyses, total]
    uploads_read,     \* number of UploadFile.read() calls made
    pdf_extractions,  \* number of extract_text_from_pdf calls made
    zip_loads,        \* number of extract_invoices_from_zip calls made
    llm_calls         \* number of generate_content calls made

vars == <<hr_policy, invoices_zip, llm, pc, policy_text, invoices,
          response_text, analyses_data, analyses, response, uploads_read,
          pdf_extractions, zip_loads, llm_calls>>

(***************************************************************************)
(* Bounds of the input sets.                                               *)
(***************************************************************************)
MaxMembers == 2
MaxElems == 2

(***************************************************************************)
(* Strings.                                                                *)
(***************************************************************************)
LowerChar(c) ==
    CASE c = "A" -> "a" [] c = "B" -> "b" [] c = "D" -> "d"
      [] c = "F" -> "f" [] c = "I" -> "i" [] c = "P" -> "p"
      [] c = "Z" -> "z" [] OTHER -> c

\* str.lower()
lower(s) == [i \in 1..Len(s) |-> LowerChar(s[i])]

\* str.endswith(suffix)
endswith(s, suffix) ==
    /\ Len(s) >= Len(suffix)
    /\ SubSeq(s, Len(s) - Len(suffix) + 1, Len(s)) = suffix

Whitespace == {" ", "\n"}

RECURSIVE lstrip(_)
lstrip(s) ==
    IF s # <<>> /\ Head(s) \in Whitespace THEN lstrip(Tail(s)) ELSE s

RECURSIVE rstrip(_)
rstrip(s) ==
    IF s # <<>> /\ s[Len(s)] \in Whitespace
    THEN rstrip(SubSeq(s, 1, Len(s) - 1))
    ELSE s

\* str.strip()
strip(s) == rstrip(lstrip(s))

DotPdf == <<".", "p", "d", "f">>
DotZip == <<".", "z", "i", "p">>

(***************************************************************************)
(* Exceptions and results of calls.                                        *)
(***************************************************************************)
HTTPException(code, msg) ==
    [type |-> "HTTPException", status_code |-> code, detail |-> msg]

OtherException(msg) ==
    [type |-> "Exception", status_code |-> 0, detail |-> msg]

NoException == [type |-> "none", status_code |-> 0, detail |-> ""]

Return(v) == [raised |-> FALSE, exc |-> NoException, value |-> v]
Raise(e, v) == [raised |-> TRUE, exc |-> e, value |-> v]

(***************************************************************************)
(* extract_text_from_pdf.  PDF bytes are [valid, pages]: whether PdfReader *)
(* can open them, and the text of each page.                               *)
(***************************************************************************)
Pdf(pages) == [valid |-> TRUE, pages |-> pages]
CorruptPdf == [valid |-> FALSE, pages |-> <<>>]

RECURSIVE ConcatPages(_)
ConcatPages(pages) ==
    IF pages = <<>> THEN <<>>
    ELSE Head(pages) \o <<"\n">> \o ConcatPages(Tail(pages))

extract_text_from_pdf(pdf_file_bytes) ==
    IF pdf_file_bytes.valid
    THEN Return(strip(ConcatPages(pdf_file_bytes.pages)))
    ELSE Raise(HTTPException(400, "Error extracting PDF text"), <<>>)

(***************************************************************************)
(* extract_invoices_from_zip.  Archive bytes are [valid, members]: whether *)
(* ZipFile can open them, and infolist() in the archive's order, each      *)
(* member a [filename, content].  The dict is a sequence of [name, text]   *)
(* entries with distinct names, in insertion order.                        *)
(***************************************************************************)
Zip(members) == [valid |-> TRUE, members |-> members]
CorruptZip == [valid |-> FALSE, members |-> <<>>]

Keys(dict) == {dict[i].name : i \in 1..Len(dict)}

\* dict[key] = value: an existing key keeps its place and takes the new value
DictSet(dict, key, value) ==
    IF key \in Keys(dict)
    THEN [i \in 1..Len(dict) |->
            IF dict[i].name = key THEN [name |-> key, text |-> value]
            ELSE dict[i]]
    ELSE Append(dict, [name |-> key, text |-> value])

\* IsPdfMember without lower()
IsPdfMember_CaseSensitive(file_info) == endswith(file_info.filename, DotPdf)

\* file_info.filename.lower().endswith('.pdf')
IsPdfMember(file_info) == endswith(lower(file_info.filename), DotPdf)

\* the except clause of extract_invoices_from_zip
ZipCatch(e) == HTTPException(400, "Error processing ZIP file")

\* the for loop of extract_invoices_from_zip
RECURSIVE LoadMembers(_, _)
LoadMembers(members, dict) ==
    IF members = <<>> THEN Return(dict)
    ELSE LET file_info == Head(members)
         IN  IF IsPdfMember(file_info)
             THEN LET r == extract_text_from_pdf(file_info.content)
                  IN  IF r.raised THEN Raise(ZipCatch(r.exc), <<>>)
                      ELSE LoadMembers(Tail(members),
                                       DictSet(dict, file_info.filename, r.value))
             ELSE LoadMembers(Tail(members), dict)

extract_invoices_from_zip(zip_file_bytes) ==
    IF zip_file_bytes.valid
    THEN LoadMembers(zip_file_bytes.members, <<>>)
    ELSE Raise(ZipCatch(OtherException("BadZipFile")), <<>>)

\* how many times the loop calls extract_text_from_pdf
RECURSIVE ExtractCalls(_)
ExtractCalls(members) ==
    IF members = <<>> THEN 0
    ELSE IF ~IsPdfMember(Head(members)) THEN ExtractCalls(Tail(members))
    ELSE IF extract_text_from_pdf(Head(members).content).raised THEN 1
    ELSE 1 + ExtractCalls(Tail(members))

(***************************************************************************)
(* The reply of the model: tokens, and the Python values they decode to.   *)
(***************************************************************************)
Fields == {"invoice_id", "reimbursement_status", "reimbursable_amount", "reason"}

\* values of a dict's entries
Absent == [k |-> "absent", n |-> 0, s |-> <<>>]
StrVal(s) == [k |-> "str", n |-> 0, s |-> s]
NumVal(tenths) == [k |-> "num", n |-> tenths, s |-> <<>>]
NullVal == [k |-> "null", n |-> 0, s |-> <<>>]

NoEntries == [f \in Fields |-> Absent]

PyList(items) == [k |-> "list", items |-> items, d |-> NoEntries, n |-> 0, s |-> <<>>]
PyDict(d) == [k |-> "dict", items |-> <<>>, d |-> d, n |-> 0, s |-> <<>>]
PyStr(s) == [k |-> "str", items |-> <<>>, d |-> NoEntries, n |-> 0, s |-> s]
PyNum(tenths) == [k |-> "num", items |-> <<>>, d |-> NoEntries, n |-> tenths, s |-> <<>>]
PyNone == [k |-> "null", items |-> <<>>, d |-> NoEntries, n |-> 0, s |-> <<>>]

Analysis(id, status, amount, reason) ==
    [f \in Fields |->
        CASE f = "invoice_id" -> id
          [] f = "reimbursement_status" -> status
          [] f = "reimbursable_amount" -> amount
          [] f = "reason" -> reason]

APdf == <<"a", ".", "p", "d", "f">>
BPdf == <<"b", ".", "p", "d", "f">>
Full == <<"F">>
Partial == <<"P">>
Declined == <<"D">>
Why == <<"w">>

\* the object literals that occur in replies
ObjectTokens == {"{}", "{a:42.9}", "{b:-1.5}", "{a:-0.5}", "{b:'50'}",
                 "{a:'x'}", "{a:null}", "{noReason}"}

ObjectOf(tok) ==
    CASE tok = "{}" -> NoEntries
      [] tok = "{a:42.9}" -> Analysis(StrVal(APdf), StrVal(Partial), NumVal(429), StrVal(Why))
      [] tok = "{b:-1.5}" -> Analysis(StrVal(BPdf), StrVal(Declined), NumVal(-15), StrVal(Why))
      [] tok = "{a:-0.5}" -> Analysis(StrVal(APdf), StrVal(Declined), NumVal(-5), StrVal(Why))
      [] tok = "{b:'50'}" -> Analysis(StrVal(BPdf), StrVal(Full), StrVal(<<"5", "0">>), StrVal(Why))
      [] tok = "{a:'x'}" -> Analysis(StrVal(APdf), StrVal(Full), StrVal(<<"x">>), StrVal(Why))
      [] tok = "{a:null}" -> Analysis(StrVal(APdf), StrVal(Full), NullVal, StrVal(Why))
      [] tok = "{noReason}" -> Analysis(StrVal(APdf), StrVal(Full), NumVal(500), Absent)

ScalarTokens == {"7", "'s'", "''", "null"}

ValueOf(tok) ==
    CASE tok \in ObjectTokens -> PyDict(ObjectOf(tok))
      [] tok = "7" -> PyNum(70)
      [] tok = "'s'" -> PyStr(<<"s">>)
      [] tok = "''" -> PyStr(<<>>)
      [] tok = "null" -> PyNone

ValueTokens == ObjectTokens \cup ScalarTokens

(***************************************************************************)
(* re.search(r'\[.*\]', response_text, re.DOTALL): the leftmost "[" that   *)
(* has a "]" after it, up to the last "]" of the text.                     *)
(***************************************************************************)
Positions(text, tok) == {i \in 1..Len(text) : text[i] = tok}

Min(S) == CHOOSE x \in S : \A y \in S : x <= y
Max(S) == CHOOSE x \in S : \A y \in S : x >= y

NoMatch == [found |-> FALSE, from |-> 0, to |-> 0]

\* re_search that never finds an array
re_search_NoMatch(text) == NoMatch

re_search(text) ==
    LET opens == Positions(text, "[")
        closes == Positions(text, "]")
    IN  IF opens # {} /\ closes # {} /\ Min(opens) < Max(closes)
        THEN [found |-> TRUE, from |-> Min(opens), to |-> Max(closes)]
        ELSE NoMatch

\* json_match.group()
group(text, m) == SubSeq(text, m.from, m.to)

(***************************************************************************)
(* json.loads: value := literal | "[" "]" | "[" value ("," value)* "]",    *)
(* and nothing may follow the value.                                       *)
(***************************************************************************)
ParseFail == [ok |-> FALSE, v |-> PyNone, next |-> 0]
Parsed(v, next) == [ok |-> TRUE, v |-> v, next |-> next]

RECURSIVE ParseValue(_, _)
RECURSIVE ParseElems(_, _, _)

\* the value that starts at text[i]
ParseValue(text, i) ==
    IF i > Len(text) THEN ParseFail
    ELSE IF text[i] \in ValueTokens THEN Parsed(ValueOf(text[i]), i + 1)
    ELSE IF text[i] = "["
         THEN IF i + 1 <= Len(text) /\ text[i + 1] = "]"
              THEN Parsed(PyList(<<>>), i + 2)
              ELSE ParseElems(text, i + 1, <<>>)
    ELSE ParseFail

\* the elements of an array from text[i] on, items being those read so far
ParseElems(text, i, items) ==
    LET r == ParseValue(text, i)
    IN  IF ~r.ok \/ r.next > Len(text) THEN ParseFail
        ELSE IF text[r.next] = "]" THEN Parsed(PyList(Append(items, r.v)), r.next + 1)
        ELSE IF text[r.next] = "," THEN ParseElems(text, r.next + 1, Append(items, r.v))
        ELSE ParseFail

json_loads(text) ==
    LET r == ParseValue(text, 1)
    IN  IF r.ok /\ r.next = Len(text) + 1 THEN Return(r.v)
        ELSE Raise(OtherException("JSONDecodeError"), PyNone)

(***************************************************************************)
(* The conversion loop of analyze_invoices_with_llm.                       *)
(***************************************************************************)
Digits == {"0", "1", "2", "3", "4", "5", "6", "7", "8", "9"}

DigitValue(c) ==
    CASE c = "0" -> 0 [] c = "1" -> 1 [] c = "2" -> 2 [] c = "3" -> 3
      [] c = "4" -> 4 [] c = "5" -> 5 [] c = "6" -> 6 [] c = "7" -> 7
      [] c = "8" -> 8 [] c = "9" -> 9

RECURSIVE DecimalValue(_)
DecimalValue(s) ==
    IF s = <<>> THEN 0
    ELSE 10 * DecimalValue(SubSeq(s, 1, Len(s) - 1)) + DigitValue(s[Len(s)])

\* Truncate that rounds down
Truncate_Floor(tenths) == tenths \div 10

\* Truncate that rounds to the nearest whole number
Truncate_Round(tenths) == (tenths + 5) \div 10

\* int(x) of a float: the fraction is dropped, toward zero
Truncate(tenths) ==
    IF tenths >= 0 THEN tenths \div 10 ELSE -((-tenths) \div 10)

\* int(x)
int(x) ==
    CASE x.k = "num" -> Return(Truncate(x.n))
      [] x.k = "str" ->
            LET t == strip(x.s)
                signed == t # <<>> /\ Head(t) \in {"+", "-"}
                digits == IF signed THEN Tail(t) ELSE t
            IN  IF digits # <<>> /\ \A i \in 1..Len(digits) : digits[i] \in Digits
                THEN Return(IF signed /\ Head(t) = "-" THEN -DecimalValue(digits)
                            ELSE DecimalValue(digits))
                ELSE Raise(OtherException("ValueError"), 0)
      [] OTHER -> Raise(OtherException("TypeError"), 0)

FieldOrder == <<"invoice_id", "reimbursement_status", "reimbursable_amount", "reason">>

RECURSIVE KeysOf(_, _)
KeysOf(d, i) ==
    IF i > Len(FieldOrder) THEN <<>>
    ELSE IF d[FieldOrder[i]].k = "absent" THEN KeysOf(d, i + 1)
    ELSE <<FieldOrder[i]>> \o KeysOf(d, i + 1)

\* what "for analysis_data in analyses_data" iterates over: a list's
\* elements, a dict's keys, a string's characters
Iterate(v) ==
    CASE v.k = "list" -> Return(v.items)
      [] v.k = "dict" ->
            Return([i \in 1..Len(KeysOf(v.d, 1)) |-> PyStr(<<KeysOf(v.d, 1)[i]>>)])
      [] v.k = "str" -> Return([i \in 1..Len(v.s) |-> PyStr(<<v.s[i]>>)])
      [] OTHER -> Raise(OtherException("TypeError"), <<>>)

NoAnalysis ==
    [invoice_id |-> <<>>, reimbursement_status |-> <<>>,
     reimbursable_amount |-> 0, reason |-> <<>>]

\* the InvoiceAnalysis model: str, str, int, str
InvoiceAnalysis(invoice_id, reimbursement_status, reimbursable_amount, reason) ==
    IF invoice_id.k = "str" /\ reimbursement_status.k = "str" /\ reason.k = "str"
    THEN Return([invoice_id |-> invoice_id.s,
                 reimbursement_status |-> reimbursement_status.s,
                 reimbursable_amount |-> reimbursable_amount,
                 reason |-> reason.s])
    ELSE Raise(OtherException("ValidationError"), NoAnalysis)

\* the body of the loop: one element to one InvoiceAnalysis
ConvertOne(analysis_data) ==
    IF analysis_data.k # "dict" THEN Raise(OtherException("TypeError"), NoAnalysis)
    ELSE LET d == analysis_data.d
         IN  IF d["invoice_id"].k = "absent" \/ d["reimbursement_status"].k = "absent"
                \/ d["reimbursable_amount"].k = "absent"
             THEN Raise(OtherException("KeyError"), NoAnalysis)
             ELSE LET amount == int(d["reimbursable_amount"])
                  IN  IF amount.raised THEN Raise(amount.exc, NoAnalysis)
                      ELSE IF d["reason"].k = "absent"
                           THEN Raise(OtherException("KeyError"), NoAnalysis)
                      ELSE InvoiceAnalysis(d["invoice_id"], d["reimbursement_status"],
                                           amount.value, d["reason"])

\* ConvertAll that keeps one analysis per invoice_id
RECURSIVE ConvertAll_OnePerInvoice(_, _)
ConvertAll_OnePerInvoice(elems, done) ==
    IF elems = <<>> THEN Return(done)
    ELSE LET r == ConvertOne(Head(elems))
         IN  IF r.raised THEN Raise(r.exc, <<>>)
             ELSE IF \E i \in 1..Len(done) : done[i].invoice_id = r.value.invoice_id
                  THEN ConvertAll_OnePerInvoice(Tail(elems), done)
                  ELSE ConvertAll_OnePerInvoice(Tail(elems), Append(done, r.value))

\* ConvertAll that skips an element it cannot convert
RECURSIVE ConvertAll_SkipFailed(_, _)
ConvertAll_SkipFailed(elems, done) ==
    IF elems = <<>> THEN Return(done)
    ELSE LET r == ConvertOne(Head(elems))
         IN  IF r.raised THEN ConvertAll_SkipFailed(Tail(elems), done)
             ELSE ConvertAll_SkipFailed(Tail(elems), Append(done, r.value))

\* the loop: analyses.append(analysis) for each element, or the first exception
RECURSIVE ConvertAll(_, _)
ConvertAll(elems, done) ==
    IF elems = <<>> THEN Return(done)
    ELSE LET r == ConvertOne(Head(elems))
         IN  IF r.raised THEN Raise(r.exc, <<>>)
             ELSE ConvertAll(Tail(elems), Append(done, r.value))

\* the except clause of analyze_invoices_with_llm
LlmCatch(e) == HTTPException(500, "LLM analysis failed")

\* lines 144-150: the array found in the reply, or else the whole reply, decoded
LoadReply(text) ==
    LET json_match == re_search(text)
    IN  IF json_match.found THEN json_loads(group(text, json_match))
        ELSE json_loads(text)

\* lines 153-163: the decoded value to the list of InvoiceAnalysis
ConvertReply(data) ==
    LET elems == Iterate(data)
    IN  IF elems.raised THEN elems ELSE ConvertAll(elems.value, <<>>)

(***************************************************************************)
(* analyze_invoices: the responses.                                        *)
(***************************************************************************)
NoResponse == [status |-> 0, detail |-> "", analyses |-> <<>>, total_invoices_processed |-> 0]

\* what FastAPI sends for an HTTPException that leaves the handler
ErrorResponse(e) ==
    [status |-> e.status_code, detail |-> e.detail, analyses |-> <<>>,
     total_invoices_processed |-> 0]

\* ReimbursementResponse(analyses=..., total_invoices_processed=...), sent as 200
ReimbursementResponse(as, total) ==
    [status |-> 200, detail |-> "", analyses |-> as, total_invoices_processed |-> total]

\* AnalyzeCatch without "except HTTPException: raise"
AnalyzeCatch_NoReraise(e) == HTTPException(500, "Internal server error")

\* the two except clauses of analyze_invoices
AnalyzeCatch(e) ==
    IF e.type = "HTTPException" THEN e
    ELSE HTTPException(500, "Internal server error")

\* hr_policy.filename.lower().endswith('.pdf')
IsPdfName(filename) == endswith(lower(filename), DotPdf)

\* IsZipName without the check
IsZipName_Unchecked(filename) == TRUE

\* invoices_zip.filename.lower().endswith('.zip')
IsZipName(filename) == endswith(lower(filename), DotZip)

\* not policy_text.strip()
PolicyUnreadable(text) == strip(text) = <<>>

\* NoInvoices without the check
NoInvoices_Unchecked(dict) == FALSE

\* not invoices
NoInvoices(dict) == Len(dict) = 0

(***************************************************************************)
(* The steps of analyze_invoices.                                          *)
(***************************************************************************)
Fail(e) ==
    /\ response' = ErrorResponse(e)
    /\ pc' = "done"

\* lines 185-189
ValidateFileTypes ==
    /\ pc = "validate"
    /\ IF ~IsPdfName(hr_policy.filename)
       THEN Fail(HTTPException(400, "HR policy must be a PDF file"))
       ELSE IF ~IsZipName(invoices_zip.filename)
            THEN Fail(HTTPException(400, "Invoices must be in a ZIP file"))
            ELSE /\ pc' = "read_policy"
                 /\ UNCHANGED response
    /\ UNCHANGED <<hr_policy, invoices_zip, llm, policy_text, invoices,
                   response_text, analyses_data, analyses, uploads_read, pdf_extractions,
                   zip_loads, llm_calls>>

\* line 193: policy_bytes = await hr_policy.read()
ReadPolicy ==
    /\ pc = "read_policy"
    /\ uploads_read' = uploads_read + 1
    /\ IF hr_policy.readable
       THEN pc' = "extract_policy" /\ UNCHANGED response
       ELSE Fail(AnalyzeCatch(OtherException("read failed")))
    /\ UNCHANGED <<hr_policy, invoices_zip, llm, policy_text, invoices,
                   response_text, analyses_data, analyses, pdf_extractions, zip_loads, llm_calls>>

\* lines 194-197
ExtractPolicy ==
    /\ pc = "extract_policy"
    /\ pdf_extractions' = pdf_extractions + 1
    /\ LET r == extract_text_from_pdf(hr_policy.content)
       IN  IF r.raised
           THEN Fail(AnalyzeCatch(r.exc)) /\ UNCHANGED policy_text
           ELSE /\ policy_text' = r.value
                /\ IF PolicyUnreadable(r.value)
                   THEN Fail(AnalyzeCatch(
                            HTTPException(400, "Could not extract text from policy PDF")))
                   ELSE pc' = "read_zip" /\ UNCHANGED response
    /\ UNCHANGED <<hr_policy, invoices_zip, llm, invoices, response_text,
                   analyses_data, analyses, uploads_read, zip_loads, llm_calls>>

\* line 200: invoices_bytes = await invoices_zip.read()
ReadZip ==
    /\ pc = "read_zip"
    /\ uploads_read' = uploads_read + 1
    /\ IF invoices_zip.readable
       THEN pc' = "extract_invoices" /\ UNCHANGED response
       ELSE Fail(AnalyzeCatch(OtherException("read failed")))
    /\ UNCHANGED <<hr_policy, invoices_zip, llm, policy_text, invoices,
                   response_text, analyses_data, analyses, pdf_extractions, zip_loads, llm_calls>>

\* lines 201-204
ExtractInvoices ==
    /\ pc = "extract_invoices"
    /\ zip_loads' = zip_loads + 1
    /\ pdf_extractions' = pdf_extractions + ExtractCalls(invoices_zip.content.members)
    /\ LET r == extract_invoices_from_zip(invoices_zip.content)
       IN  IF r.raised
           THEN Fail(AnalyzeCatch(r.exc)) /\ UNCHANGED invoices
           ELSE /\ invoices' = r.value
                /\ IF NoInvoices(r.value)
                   THEN Fail(AnalyzeCatch(
                            HTTPException(400, "No PDF invoices found in ZIP file")))
                   ELSE pc' = "generate_content" /\ UNCHANGED response
    /\ UNCHANGED <<hr_policy, invoices_zip, llm, policy_text, response_text,
                   analyses_data, analyses, uploads_read, llm_calls>>

\* lines 131-141 of analyze_invoices_with_llm: the call of the model
GenerateContent ==
    /\ pc = "generate_content"
    /\ llm_calls' = llm_calls + 1
    /\ IF llm.fails
       THEN /\ Fail(AnalyzeCatch(LlmCatch(OtherException("generate_content failed"))))
            /\ UNCHANGED response_text
       ELSE /\ response_text' = llm.text
            /\ pc' = "parse_json"
            /\ UNCHANGED response
    /\ UNCHANGED <<hr_policy, invoices_zip, llm, policy_text, invoices,
                   analyses_data, analyses, uploads_read, pdf_extractions, zip_loads>>

\* lines 143-150 of analyze_invoices_with_llm: the JSON of the reply
ParseJson ==
    /\ pc = "parse_json"
    /\ LET r == LoadReply(response_text)
       IN  IF r.raised
           THEN Fail(AnalyzeCatch(LlmCatch(r.exc))) /\ UNCHANGED analyses_data
           ELSE /\ analyses_data' = [loaded |-> TRUE, value |-> r.value]
                /\ pc' = "convert"
                /\ UNCHANGED response
    /\ UNCHANGED <<hr_policy, invoices_zip, llm, policy_text, invoices,
                   response_text, analyses, uploads_read, pdf_extractions,
                   zip_loads, llm_calls>>

\* lines 152-166 of analyze_invoices_with_llm: the InvoiceAnalysis objects
ConvertAnalyses ==
    /\ pc = "convert"
    /\ LET r == ConvertReply(analyses_data.value)
       IN  IF r.raised
           THEN Fail(AnalyzeCatch(LlmCatch(r.exc))) /\ UNCHANGED analyses
           ELSE /\ analyses' = r.value
                /\ pc' = "respond"
                /\ UNCHANGED response
    /\ UNCHANGED <<hr_policy, invoices_zip, llm, policy_text, invoices,
                   response_text, analyses_data, uploads_read, pdf_extractions,
                   zip_loads, llm_calls>>

\* lines 209-212
Respond ==
    /\ pc = "respond"
    /\ response' = ReimbursementResponse(analyses, Len(analyses))
    /\ pc' = "done"
    /\ UNCHANGED <<hr_policy, invoices_zip, llm, policy_text, invoices,
                   response_text, analyses_data, analyses, uploads_read, pdf_extractions,
                   zip_loads, llm_calls>>

Next ==
    \/ ValidateFileTypes
    \/ ReadPolicy
    \/ ExtractPolicy
    \/ ReadZip
    \/ ExtractInvoices
    \/ GenerateContent
    \/ ParseJson
    \/ ConvertAnalyses
    \/ Respond

(***************************************************************************)
(* The requests.                                                           *)
(***************************************************************************)
UploadFile(filename, content, readable) ==
    [filename |-> filename, content |-> content, readable |-> readable]

PolicyNames == {<<"p", ".", "p", "d", "f">>, <<"P", ".", "P", "D", "F">>,
                <<"p", ".", "t", "x", "t">>, <<"p", "d", "f">>}

ZipNames == {<<"i", ".", "z", "i", "p">>, <<"I", ".", "Z", "i", "p">>,
             <<"i", ".", "p", "d", "f">>}

PolicyPdfs == {CorruptPdf, Pdf(<<>>), Pdf(<< <<" ">> >>), Pdf(<< <<"t">> >>),
               Pdf(<< <<" ", "t">>, <<>> >>)}

MemberNames == {APdf, <<"B", ".", "P", "D", "F">>, <<"n", ".", "t", "x", "t">>}

MemberPdfs == {CorruptPdf, Pdf(<< <<"t">> >>), Pdf(<< <<"u">> >>)}

Members == [filename : MemberNames, content : MemberPdfs]

SeqsUpTo(S, n) == UNION {[1..k -> S] : k \in 0..n}

\* every archive of at most MaxMembers members
Archives == {CorruptZip} \cup {Zip(ms) : ms \in SeqsUpTo(Members, MaxMembers)}

Member(name, pdf) == [filename |-> name, content |-> pdf]

\* one archive of each kind
SomeArchives ==
    {CorruptZip, Zip(<<>>),
     Zip(<<Member(<<"n", ".", "t", "x", "t">>, Pdf(<< <<"t">> >>))>>),
     Zip(<<Member(APdf, CorruptPdf)>>),
     Zip(<<Member(APdf, Pdf(<< <<"t">> >>))>>),
     Zip(<<Member(APdf, Pdf(<< <<"t">> >>)),
           Member(<<"B", ".", "P", "D", "F">>, Pdf(<< <<"u">> >>))>>)}

Prose == {<<>>, <<"prose">>, <<"[">>, <<"]">>}

RECURSIVE Join(_)
Join(elems) ==
    IF Len(elems) <= 1 THEN elems
    ELSE <<Head(elems), ",">> \o Join(Tail(elems))

\* the JSON texts: nothing, one literal, or an array of at most MaxElems literals
Bodies ==
    {<<>>} \cup {<<t>> : t \in ValueTokens}
           \cup {<<"[">> \o Join(es) \o <<"]">> : es \in SeqsUpTo(ValueTokens, MaxElems)}

\* every reply: a JSON text with prose around it
Replies == {pre \o body \o post : pre \in Prose, body \in Bodies, post \in Prose}

Reply(text) == [fails |-> FALSE, text |-> text]
NoReply == [fails |-> TRUE, text |-> <<>>]

\* one reply of each kind
SomeReplies ==
    {<<"prose">>, <<"{}">>, <<"[", "]">>,
     <<"prose", "[", "{a:42.9}", "]", "prose">>,
     <<"[", "{a:42.9}", ",", "{b:-1.5}", "]">>,
     <<"[", "{a:42.9}", ",", "{noReason}", "]">>,
     <<"[", "[", "{a:42.9}", "]">>}

InitWith(policies, archives, replies) ==
    /\ hr_policy \in policies
    /\ invoices_zip \in archives
    /\ llm \in replies
    /\ pc = "validate"
    /\ policy_text = <<>>
    /\ invoices = <<>>
    /\ response_text = <<>>
    /\ analyses_data = [loaded |-> FALSE, value |-> PyNone]
    /\ analyses = <<>>
    /\ response = NoResponse
    /\ uploads_read = 0
    /\ pdf_extractions = 0
    /\ zip_loads = 0
    /\ llm_calls = 0

GoodPolicy == UploadFile(<<"p", ".", "p", "d", "f">>, Pdf(<< <<"t">> >>), TRUE)
GoodZipName == <<"i", ".", "z", "i", "p">>

\* requests of every kind, each input from a small set
Init ==
    InitWith({UploadFile(f, c, r) : f \in PolicyNames, c \in PolicyPdfs, r \in BOOLEAN},
             {UploadFile(f, c, r) : f \in ZipNames, c \in SomeArchives, r \in BOOLEAN},
             {NoReply} \cup {Reply(t) : t \in SomeReplies})

Spec == Init /\ [][Next]_vars

\* requests that reach the model, with every reply
InitLLM ==
    InitWith({GoodPolicy},
             {UploadFile(GoodZipName, c, TRUE) :
                 c \in {a \in SomeArchives :
                          extract_invoices_from_zip(a).value # <<>>}},
             {NoReply} \cup {Reply(t) : t \in Replies})

SpecLLM == InitLLM /\ [][Next]_vars

\* requests with every archive
InitZip ==
    InitWith({GoodPolicy},
             {UploadFile(GoodZipName, c, TRUE) : c \in Archives},
             {NoReply, Reply(<<"[", "{a:42.9}", "]">>)})

SpecZip == InitZip /\ [][Next]_vars

(***************************************************************************)
(* Vocabulary of the properties: what a request's inputs are, read off     *)
(* the inputs themselves.                                                  *)
(***************************************************************************)
AllWhitespace(s) == \A i \in 1..Len(s) : s[i] \in Whitespace

\* the declared names carry the extensions, in any letter case
NamesAccepted ==
    /\ endswith(lower(hr_policy.filename), DotPdf)
    /\ endswith(lower(invoices_zip.filename), DotZip)

\* the declared names carry the extensions, letter for letter
NamesEndExactly ==
    /\ endswith(hr_policy.filename, DotPdf)
    /\ endswith(invoices_zip.filename, DotZip)

NoWorkDone ==
    uploads_read = 0 /\ pdf_extractions = 0 /\ zip_loads = 0 /\ llm_calls = 0

PolicyCorrupt == ~hr_policy.content.valid

PolicyBlank ==
    /\ hr_policy.content.valid
    /\ \A i \in 1..Len(hr_policy.content.pages) : AllWhitespace(hr_policy.content.pages[i])

PdfMembers(zip) ==
    {i \in 1..Len(zip.members) : endswith(lower(zip.members[i].filename), DotPdf)}

ArchiveCorrupt == ~invoices_zip.content.valid

MemberCorrupt ==
    /\ invoices_zip.content.valid
    /\ \E i \in PdfMembers(invoices_zip.content) : ~invoices_zip.content.members[i].content.valid

ArchiveWithoutPdf ==
    invoices_zip.content.valid /\ PdfMembers(invoices_zip.content) = {}

\* the uploaded artifacts are at fault, and the request gets to see it
InputFailure ==
    \/ ~NamesAccepted
    \/ hr_policy.readable /\ (PolicyCorrupt \/ PolicyBlank)
    \/ /\ hr_policy.readable /\ invoices_zip.readable
       /\ (ArchiveCorrupt \/ MemberCorrupt \/ ArchiveWithoutPdf)

Done == pc = "done"

\* C1 as stated: a request whose policy name does not end in ".pdf" or whose
\* archive name does not end in ".zip" ends with 400 and has done no work.
C1_Original ==
    ~NamesEndExactly => /\ NoWorkDone
                        /\ pc \in {"validate", "done"}
                        /\ Done => response.status = 400

\* C1: a request whose policy name does not end in ".pdf" or whose archive
\* name does not end in ".zip", letter case ignored, ends with 400 in its first
\* step; no upload is read, no PDF text extracted, no archive loaded and the
\* model not called.
C1_RejectedBeforeAnyWork ==
    ~NamesAccepted => /\ NoWorkDone
                      /\ pc \in {"validate", "done"}
                      /\ Done => response.status = 400

C1_Witness ==
    /\ Done
    /\ endswith(lower(hr_policy.filename), DotPdf)
    /\ ~endswith(lower(invoices_zip.filename), DotZip)
    /\ hr_policy.readable /\ ~PolicyCorrupt
    /\ response.status = 400
    /\ response.detail = "Invoices must be in a ZIP file"
    /\ NoWorkDone

\* C2: the model is called only once the policy text was found non-blank and
\* the invoice mapping non-empty; a request with a blank policy text or an
\* archive without PDF members, its uploads read, ends with 400 and never
\* calls the model.
C2_ModelCalledOnlyWithPolicyAndInvoices ==
    /\ llm_calls > 0 => ~AllWhitespace(policy_text) /\ Len(invoices) > 0
    /\ \/ hr_policy.readable /\ PolicyBlank
       \/ hr_policy.readable /\ invoices_zip.readable /\ ArchiveWithoutPdf
       => /\ llm_calls = 0
          /\ pc # "generate_content"
          /\ Done => response.status = 400

C2_Witness ==
    /\ Done
    /\ NamesAccepted
    /\ ~PolicyCorrupt /\ ~PolicyBlank
    /\ ArchiveWithoutPdf /\ Len(invoices_zip.content.members) > 0
    /\ zip_loads = 1
    /\ response.status = 400
    /\ response.detail = "No PDF invoices found in ZIP file"
    /\ llm_calls = 0

\* C3: a failure of the uploaded artifacts (extension, blank policy text, no
\* PDF member, corrupt policy PDF, corrupt archive, corrupt PDF member) is
\* answered 400, a failure of the model call or of the parsing of its reply
\* 500; neither is answered with the other's status.
C3_StatusByFailureClass ==
    Done => /\ response.status \in {200, 400, 500}
            /\ InputFailure => response.status = 400
            /\ llm_calls > 0 /\ response.status # 200 => response.status = 500
            /\ response.status = 400 => InputFailure /\ llm_calls = 0

C3_Witness ==
    /\ Done
    /\ NamesAccepted /\ ~PolicyCorrupt /\ ~PolicyBlank
    /\ MemberCorrupt
    /\ zip_loads = 1
    /\ response.status = 400
    /\ response.detail = "Error processing ZIP file"

\* the reply holds an array one of whose elements cannot become an InvoiceAnalysis
ElementFails ==
    /\ ~llm.fails
    /\ LoadReply(llm.text).value.k = "list"
    /\ \E i \in 1..Len(LoadReply(llm.text).value.items) :
          ConvertOne(LoadReply(llm.text).value.items[i]).raised

AnyFailure ==
    \/ ~NamesAccepted
    \/ ~hr_policy.readable \/ PolicyCorrupt \/ PolicyBlank
    \/ ~invoices_zip.readable \/ ArchiveCorrupt \/ MemberCorrupt \/ ArchiveWithoutPdf
    \/ llm.fails
    \/ LoadReply(llm.text).raised
    \/ ElementFails

\* C4: the model is called at most once per request, and a failure of any
\* step ends the request with an error response that carries no analyses.
C4_OneCallAndNoPartialResult ==
    /\ llm_calls <= 1
    /\ Done /\ AnyFailure => /\ response.status \in {400, 500}
                             /\ response.analyses = <<>>
                             /\ response.total_invoices_processed = 0

C4_Witness ==
    /\ Done
    /\ ElementFails
    /\ ~ConvertOne(LoadReply(llm.text).value.items[1]).raised
    /\ llm_calls = 1
    /\ response.status = 500

(***************************************************************************)
(* Vocabulary of the properties about the reply.                           *)
(***************************************************************************)
Abs(n) == IF n < 0 THEN -n ELSE n

\* the whole number next to tenths/10 on the side of zero
TowardZero(tenths) ==
    CHOOSE q \in -Abs(tenths)..Abs(tenths) :
        /\ q * tenths >= 0
        /\ Abs(10 * q) <= Abs(tenths)
        /\ Abs(tenths) - Abs(10 * q) < 10

\* the model was called, replied, and the JSON step has acted on the reply
ReplyParsed ==
    llm_calls = 1 /\ ~llm.fails /\ pc \in {"convert", "respond", "done"}

Succeeded == Done /\ response.status = 200

\* the elements of the decoded array
Elements == IF analyses_data.value.k = "list" THEN analyses_data.value.items ELSE <<>>

AmountOf(e) == e.d["reimbursable_amount"]

\* an object with the four fields, the amount a JSON number
WholeObject(e) ==
    /\ e.k = "dict"
    /\ \A f \in {"invoice_id", "reimbursement_status", "reason"} : e.d[f].k = "str"
    /\ AmountOf(e).k = "num"

\* the InvoiceAnalysis of such an object
Expected(e) ==
    [invoice_id |-> e.d["invoice_id"].s,
     reimbursement_status |-> e.d["reimbursement_status"].s,
     reimbursable_amount |-> TowardZero(AmountOf(e).n),
     reason |-> e.d["reason"].s]

\* C5 as stated: every reimbursable_amount of a successful response is
\* non-negative.
C5_Original ==
    Succeeded => \A i \in 1..Len(response.analyses) :
                    response.analyses[i].reimbursable_amount >= 0

\* C5: a reimbursable_amount of a successful response is a whole number; it
\* is negative where the model's amount is a number of -1 or less, and
\* nowhere else but where the model's amount is a string with a minus sign.
C5_NegativeOnlyFromNegativeReply ==
    Succeeded =>
        /\ Len(response.analyses) = Len(Elements)
        /\ \A i \in 1..Len(response.analyses) :
              /\ \/ response.analyses[i].reimbursable_amount >= 0
                 \/ AmountOf(Elements[i]).k = "num" /\ AmountOf(Elements[i]).n <= -10
                 \/ AmountOf(Elements[i]).k = "str" /\ "-" \in
                       {AmountOf(Elements[i]).s[j] : j \in 1..Len(AmountOf(Elements[i]).s)}
              /\ AmountOf(Elements[i]).k = "num" /\ AmountOf(Elements[i]).n <= -10
                    => response.analyses[i].reimbursable_amount < 0

C5_Witness ==
    /\ Succeeded
    /\ \E i \in 1..Len(response.analyses) :
          /\ response.analyses[i].reimbursable_amount = -1
          /\ AmountOf(Elements[i]).n = -15
    /\ \E i \in 1..Len(response.analyses) :
          /\ response.analyses[i].reimbursable_amount = 0
          /\ AmountOf(Elements[i]).n = -5

Undecodable ==
    /\ re_search(llm.text).found => json_loads(group(llm.text, re_search(llm.text))).raised
    /\ json_loads(llm.text).raised

\* the value the JSON step decoded is not an array of objects
NotArrayOfObjects ==
    /\ analyses_data.loaded
    /\ \/ analyses_data.value.k # "list"
       \/ \E i \in 1..Len(analyses_data.value.items) :
             analyses_data.value.items[i].k # "dict"

\* C7: a reply that cannot be decoded, or that decodes to something other than
\* an array of objects, ends the request with 500.
C7_NotAnArrayIsRejected ==
    Done /\ llm_calls = 1 /\ ~llm.fails /\ (Undecodable \/ NotArrayOfObjects)
        => response.status = 500

\* the well-formed JSON arrays that the reply contains
ArraysIn(text) ==
    {p \in (1..Len(text)) \X (1..Len(text)) :
        /\ p[1] < p[2]
        /\ text[p[1]] = "[" /\ text[p[2]] = "]"
        /\ ~json_loads(SubSeq(text, p[1], p[2])).raised}

TheArray(text) == CHOOSE p \in ArraysIn(text) : TRUE

\* no "[" before the array and no "]" after it
ArrayIsOutermost(text) ==
    /\ \A i \in 1..(TheArray(text)[1] - 1) : text[i] # "["
    /\ \A i \in (TheArray(text)[2] + 1)..Len(text) : text[i] # "]"

\* the JSON step decoded exactly the array of the reply, and a successful
\* response has the analyses of its elements in its order
DecodedTheArray ==
    LET p == TheArray(llm.text)
        array == json_loads(SubSeq(llm.text, p[1], p[2])).value
    IN  /\ analyses_data.loaded
        /\ analyses_data.value = array
        /\ Done /\ (\A i \in 1..Len(array.items) : WholeObject(array.items[i]))
              => /\ response.status = 200
                 /\ response.analyses = [i \in 1..Len(array.items) |-> Expected(array.items[i])]

\* C8 as stated: a reply that contains exactly one well-formed JSON array,
\* whatever surrounds it, is decoded to that array.
C8_Original ==
    ReplyParsed /\ Cardinality(ArraysIn(llm.text)) = 1 => DecodedTheArray

\* C8: a reply that contains exactly one well-formed JSON array, with no "["
\* before it and no "]" after it, is decoded to that array, and the analyses
\* are those of its elements in its order.
C8_OutermostArrayIsDecoded ==
    ReplyParsed /\ Cardinality(ArraysIn(llm.text)) = 1 /\ ArrayIsOutermost(llm.text)
        => DecodedTheArray

C8_Witness ==
    /\ Succeeded
    /\ Cardinality(ArraysIn(llm.text)) = 1
    /\ Head(llm.text) = "prose" /\ llm.text[Len(llm.text)] = "prose"
    /\ Len(response.analyses) = 2
    /\ response.analyses[1].invoice_id = BPdf
    /\ response.analyses[2].invoice_id = APdf

\* the archive was loaded, and it and each of its PDF members could be opened
ArchiveLoaded ==
    zip_loads = 1 /\ invoices_zip.content.valid /\ ~MemberCorrupt

PdfPaths(zip) == {zip.members[i].filename : i \in PdfMembers(zip)}

\* C9 as stated: the mapping has one entry per PDF member, keyed by the
\* member's path, and none for another member.
C9_Original ==
    ArchiveLoaded =>
        /\ Len(invoices) = Cardinality(PdfMembers(invoices_zip.content))
        /\ Keys(invoices) = PdfPaths(invoices_zip.content)

\* C9: the mapping has one entry per distinct path of a PDF member, keyed by
\* that exact path and holding the text of the last member recorded under it,
\* and none for another member.
C9_OneEntryPerPdfPath ==
    ArchiveLoaded =>
        /\ Len(invoices) = Cardinality(PdfPaths(invoices_zip.content))
        /\ Keys(invoices) = PdfPaths(invoices_zip.content)
        /\ \A e \in 1..Len(invoices) :
              LET zip == invoices_zip.content
                  last == CHOOSE i \in PdfMembers(zip) :
                              /\ zip.members[i].filename = invoices[e].name
                              /\ \A j \in PdfMembers(zip) :
                                    zip.members[j].filename = invoices[e].name => j <= i
              IN  invoices[e].text = strip(ConcatPages(zip.members[last].content.pages))

C9_Witness ==
    /\ ArchiveLoaded
    /\ Len(invoices_zip.content.members) = 2
    /\ invoices_zip.content.members[1].filename = invoices_zip.content.members[2].filename
    /\ invoices_zip.content.members[1].content # invoices_zip.content.members[2].content
    /\ Len(invoices) = 1
    /\ invoices[1].name = <<"B", ".", "P", "D", "F">>
    /\ invoices[1].text = <<"u">>

\* C10: a decimal amount of the reply is returned truncated toward zero, and
\* a reply whose array holds only objects with the four fields and numeric
\* amounts is never rejected.
C10_DecimalTruncatedTowardZero ==
    /\ Succeeded =>
          \A i \in 1..Len(Elements) :
              AmountOf(Elements[i]).k = "num" =>
                  response.analyses[i].reimbursable_amount
                      = TowardZero(AmountOf(Elements[i]).n)
    /\ Done /\ analyses_data.loaded /\ analyses_data.value.k = "list"
          /\ (\A i \in 1..Len(Elements) : WholeObject(Elements[i]))
          => response.status = 200

C10_Witness ==
    /\ Succeeded
    /\ \E i \in 1..Len(Elements) :
          /\ AmountOf(Elements[i]).n = 429
          /\ response.analyses[i].reimbursable_amount = 42
    /\ \E i \in 1..Len(Elements) :
          /\ AmountOf(Elements[i]).n = -15
          /\ response.analyses[i].reimbursable_amount = -1

====
